---- MODULE Spec2Model ----
(***************************************************************************)
(* A model of the V4L2 capture pipeline: ThreadSafeQueue<T>                *)
(* (thread_safe_queue.h), CameraCapture (CameraCapture.cpp) and the        *)
(* consumer loop of EncoderStreamer (EncoderStreamer.cpp), wired as in     *)
(* example.cpp.                                                            *)
(***************************************************************************)
EXTENDS Integers, Sequences, FiniteSets, TLC

\* ------------------------------------------------------------------ bounds
\* number of threads that call push/pop on one queue
NThr == 2
\* number of push calls made on one queue
MaxPush == 3
\* largest capacity a queue is constructed with (0 is the unbounded queue)
MaxCap == 2
\* largest number of buffers the driver grants to VIDIOC_REQBUFS
MaxGrant == 2
\* number of frames the device produces
MaxFrames == 3

Threads == 1..NThr

\* timeout_ms arguments: negative waits for ever, 0 polls, 50 is the value
\* the consumer loop and the capacity scenario use
TimeoutValues == {-1, 0, 50}

\* A queue item. The one instantiation is ThreadSafeQueue<CameraFrame>; an
\* item carries the frame's sequence number and buffer index.
Item(seq, idx) == [sequence |-> seq, buf_index |-> idx]
\* a default-constructed CameraFrame (no release closure bound)
NoItem == Item(-1, -1)

\* what a caller's variable holds before it is handed to pop
StaleItem == Item(0, 0)

VARIABLES
    queue_,        \* ThreadSafeQueue::queue_, front first
    terminated_,   \* ThreadSafeQueue::terminated_
    max_size_,     \* ThreadSafeQueue::max_size_
    th,            \* per thread: where it is inside push/pop
    last,          \* the push or pop call that returned last
    pushedLog,     \* items of the pushes that returned true, in order
    poppedLog,     \* items of the pops that returned true, in order
    nextItem,      \* number of push calls made so far
    termPc,        \* where the caller of terminate() is
    termReturned   \* a terminate() call has returned

qvars == <<queue_, terminated_, max_size_, th, last, pushedLog, poppedLog,
           nextItem, termPc, termReturned>>

VARIABLES
    fd_,            \* CameraCapture::fd_ (-1: none)
    initialized_,   \* CameraCapture::initialized_
    running_,       \* CameraCapture::running_
    buffers_,       \* CameraCapture::buffers_; buffers_[i + 1] is buffer i
    frame_callback_,\* a callback is registered
    capPc,          \* where the capture thread is
    capFrame,       \* the capture thread's local CameraFrame
    mainPc,         \* where the thread that calls start/stop is
    call,           \* the call of the camera's interface made in this step
    relOK,          \* indices released with success and not dequeued since
    held,           \* frames a callback kept, with "release was invoked"
    devN,           \* the driver: number of buffers it allocated
    inQ,            \* the driver: indices queued for filling, oldest first
    doneQ,          \* the driver: filled buffers not yet dequeued
    streaming,      \* the driver: streaming is on
    devSeq          \* the driver: sequence number of the next frame

camrest == <<fd_, initialized_, running_, buffers_, frame_callback_, capPc,
             capFrame, mainPc, relOK, held>>
camvars == <<camrest, call>>
devvars == <<devN, inQ, doneQ, streaming, devSeq>>

VARIABLES
    encRunning,     \* EncoderStreamer::running_
    encPc,          \* where the encoding thread is
    encFrame,       \* the encoding thread's local CameraFrame
    encPath,        \* the way the encoding thread's iteration has taken
    relLog,         \* frames whose return_buffer the consumer invoked
    exPc            \* where main() of example.cpp is

encvars == <<encRunning, encPc, encFrame, encPath, relLog, exPc>>

pipevars == <<camvars, devvars, encvars>>
vars == <<qvars, pipevars>>

\* ------------------------------------------------------- ThreadSafeQueue
\* a thread that is in no call
IdleThread ==
    [st |-> "idle", op |-> "none", timeout_ms |-> -1,
     item |-> NoItem, blocked |-> FALSE, afterTerm |-> FALSE]

\* the record of a call that has returned: what it was, what it returned,
\* whether it waited, whether it left through the timeout, whether it began
\* after a terminate() had returned, and the item pop wrote to its caller
NoCall ==
    [op |-> "none", timeout_ms |-> -1, ret |-> "none", blocked |-> FALSE,
     timedOut |-> FALSE, afterTerm |-> FALSE, out |-> NoItem]

Returned(r, res, byTimeout, out) ==
    [op |-> r.op, timeout_ms |-> r.timeout_ms, ret |-> res,
     blocked |-> r.blocked, timedOut |-> byTimeout,
     afterTerm |-> r.afterTerm, out |-> out]

\* the wait predicate of push
NotFullPredOffByOne == Len(queue_) <= max_size_ \/ terminated_
NotFullPredNoWait == TRUE
NotFullPred == Len(queue_) < max_size_ \/ terminated_

\* the wait predicate of pop
NotEmptyPred == Len(queue_) > 0 \/ terminated_

\* "if (terminated_) return false" of push
PushRejectsNever == FALSE
PushRejects == terminated_

\* "if (terminated_ && queue_.empty()) return false" of pop
PopRejects == terminated_ /\ Len(queue_) = 0

\* what a pop that returns false leaves in the caller's item: the assignment
\* "item = std::move(queue_.front())" is reached only by a pop that succeeds
PopFailureOutCleared(item) == NoItem
PopFailureOut(item) == item

\* std::queue: push at the back, front()/pop() at the front
QueuePushFront(q, x) == <<x>> \o q
QueuePushReplaces(q, x) == <<x>>
QueuePush(q, x) == Append(q, x)
QueueFrontLast(q) == q[Len(q)]
QueueFront(q) == Head(q)
QueuePop(q) == Tail(q)

Waiters(T, o) == {t \in Threads : T[t].st = "wait" /\ T[t].op = o}

\* condition_variable::notify_one: the outcomes, one per waiter that can be
\* the one woken (no waiter: nothing happens)
NotifyOneDropped(T, o) == {T}
NotifyOne(T, o) ==
    IF Waiters(T, o) = {} THEN {T}
    ELSE {[T EXCEPT ![w].st = "notified"] : w \in Waiters(T, o)}

\* condition_variable::notify_all
NotifyAll(T, o) ==
    [t \in Threads |->
        IF T[t].st = "wait" /\ T[t].op = o
        THEN [T[t] EXCEPT !.st = "notified"] ELSE T[t]]

\* the two notifications of terminate(), as sets of outcomes
TerminateNotifyOne(T, o) == NotifyOne(T, o)
TerminateNotify(T, o) == {NotifyAll(T, o)}

\* push, from the terminated_ check on (lines 66-73 and 103-110); T is th
\* with the caller's record already updated
PushTail(t, T) ==
    IF PushRejects
    THEN /\ th' = [T EXCEPT ![t] = IdleThread]
         /\ last' = Returned(T[t], "false", FALSE, NoItem)
         /\ UNCHANGED <<queue_, pushedLog>>
    ELSE /\ queue_' = QueuePush(queue_, T[t].item)
         /\ pushedLog' = Append(pushedLog, T[t].item)
         /\ last' = Returned(T[t], "true", FALSE, NoItem)
         /\ th' \in NotifyOne([T EXCEPT ![t] = IdleThread], "pop")

\* pop, from the terminated_ check on (lines 138-148)
PopTail(t, T) ==
    IF PopRejects
    THEN /\ th' = [T EXCEPT ![t] = IdleThread]
         /\ last' = Returned(T[t], "false", FALSE, PopFailureOut(T[t].item))
         /\ UNCHANGED <<queue_, poppedLog>>
    ELSE /\ queue_' = QueuePop(queue_)
         /\ poppedLog' = Append(poppedLog, QueueFront(queue_))
         /\ last' = Returned(T[t], "true", FALSE, QueueFront(queue_))
         /\ LET T2 == [T EXCEPT ![t] = IdleThread]
            IN  th' \in (IF max_size_ > 0 THEN NotifyOne(T2, "push") ELSE {T2})

\* a call of push(item, timeout_ms) by thread t, up to its return or to the
\* point where it blocks on not_full_
QPush(t, tmo, item) ==
    LET r == [IdleThread EXCEPT !.op = "push", !.timeout_ms = tmo,
                                !.item = item, !.afterTerm = termReturned]
        T == [th EXCEPT ![t] = r]
    IN  /\ th[t].st = "idle"
        /\ IF max_size_ > 0 /\ ~NotFullPred
           THEN IF tmo = 0
                THEN \* wait_for with no time left returns the predicate
                     /\ th' = th
                     /\ last' = Returned(r, "false", TRUE, NoItem)
                     /\ UNCHANGED <<queue_, pushedLog>>
                ELSE /\ th' = [T EXCEPT ![t].st = "wait", ![t].blocked = TRUE]
                     /\ UNCHANGED <<queue_, pushedLog, last>>
           ELSE PushTail(t, T)
        /\ UNCHANGED <<poppedLog, terminated_, max_size_>>

\* a call of pop(item, timeout_ms) by thread t
QPop(t, tmo, item) ==
    LET r == [IdleThread EXCEPT !.op = "pop", !.timeout_ms = tmo,
                                !.item = item, !.afterTerm = termReturned]
        T == [th EXCEPT ![t] = r]
    IN  /\ th[t].st = "idle"
        /\ IF ~NotEmptyPred
           THEN IF tmo = 0
                THEN /\ th' = th
                     /\ last' = Returned(r, "false", TRUE, PopFailureOut(item))
                     /\ UNCHANGED <<queue_, poppedLog>>
                ELSE /\ th' = [T EXCEPT ![t].st = "wait", ![t].blocked = TRUE]
                     /\ UNCHANGED <<queue_, poppedLog, last>>
           ELSE PopTail(t, T)
        /\ UNCHANGED <<pushedLog, terminated_, max_size_>>

\* the predicate thread t is waiting for
WaitPred(t) == IF th[t].op = "push" THEN NotFullPred ELSE NotEmptyPred

\* the rest of the call once the wait is over
AfterWait(t) ==
    IF th[t].op = "push"
    THEN PushTail(t, th) /\ UNCHANGED poppedLog
    ELSE PopTail(t, th) /\ UNCHANGED pushedLog

\* a notified waiter re-acquires the mutex and evaluates its predicate
\* again: it goes on, or waits again
QResume(t) ==
    /\ th[t].st = "notified"
    /\ IF WaitPred(t)
       THEN AfterWait(t)
       ELSE /\ th' = [th EXCEPT ![t].st = "wait"]
            /\ UNCHANGED <<queue_, pushedLog, poppedLog, last>>
    /\ UNCHANGED <<terminated_, max_size_>>

\* the timeout of wait_for elapses: the call goes on if the predicate holds
\* by now, and returns false otherwise
QTimeout(t) ==
    /\ th[t].st \in {"wait", "notified"}
    /\ th[t].timeout_ms >= 0
    /\ IF WaitPred(t)
       THEN AfterWait(t)
       ELSE /\ th' = [th EXCEPT ![t] = IdleThread]
            /\ last' = Returned(th[t], "false", TRUE,
                                 IF th[t].op = "pop"
                                 THEN PopFailureOut(th[t].item) ELSE NoItem)
            /\ UNCHANGED <<queue_, pushedLog, poppedLog>>
    /\ UNCHANGED <<terminated_, max_size_>>

\* a spurious wake-up of a waiter that nobody notified: it matters only when
\* the predicate holds
QSpurious(t) ==
    /\ th[t].st = "wait"
    /\ WaitPred(t)
    /\ AfterWait(t)
    /\ UNCHANGED <<terminated_, max_size_>>

\* terminate(): the flag under the mutex, then the two notify_all
QTerminateSet ==
    /\ termPc = "idle"
    /\ terminated_' = TRUE
    /\ termPc' = "flag"
    /\ UNCHANGED <<queue_, max_size_, th, last, pushedLog, poppedLog>>

QTerminateNotFull ==
    /\ termPc = "flag"
    /\ th' \in TerminateNotify(th, "push")
    /\ termPc' = "not_full"
    /\ UNCHANGED <<queue_, max_size_, terminated_, last, pushedLog, poppedLog>>

QTerminateNotEmpty ==
    /\ termPc = "not_full"
    /\ th' \in TerminateNotify(th, "pop")
    /\ termPc' = "idle"
    /\ UNCHANGED <<queue_, max_size_, terminated_, last, pushedLog, poppedLog>>

\* ------------------------------------------------------------ the driver
\* The V4L2 buffer queue behind fd_: a buffer is queued for filling, filled
\* and waiting to be dequeued, or dequeued (the application's).
InRange(q, i) == \E k \in 1..Len(q) : q[k] = i
InDone(q, i) == \E k \in 1..Len(q) : q[k].buf_index = i

DevState(i) ==
    IF InRange(inQ, i) THEN "queued"
    ELSE IF InDone(doneQ, i) THEN "done"
    ELSE "dequeued"

\* VIDIOC_QBUF of buffer i is accepted: the buffer exists and is dequeued
QBufAccepted(i) == i \in 0..(devN - 1) /\ DevState(i) = "dequeued"

\* the number of buffers below which request_buffers gives up
MinBuffers == 2

\* ------------------------------------------------------- CameraCapture
NoFrame == NoItem
\* a call's record: what was called, what it returned, whether it reached
\* VIDIOC_QBUF, the error it reported and the req.count VIDIOC_REQBUFS gave
NoApiCall ==
    [op |-> "none", index |-> -1, ret |-> FALSE, qbuf |-> FALSE,
     error |-> "none", granted |-> -1]
ApiCall(o, i, r, q) ==
    [op |-> o, index |-> i, ret |-> r, qbuf |-> q, error |-> "none",
     granted |-> -1]

\* a Buffer as vector::resize leaves it (value-initialised)
FreshBuffer == [start |-> "null", dma_fd |-> 0]
MappedBuffer(noExport) ==
    [start |-> "mapped", dma_fd |-> IF noExport THEN -1 ELSE 1]

\* the camera is constructed and nothing was called on it
CamIdle ==
    /\ fd_ = -1
    /\ initialized_ = FALSE
    /\ running_ = FALSE
    /\ buffers_ = <<>>
    /\ frame_callback_ = FALSE
    /\ capPc = "none"
    /\ capFrame = NoFrame
    /\ mainPc = "idle"
    /\ call = NoApiCall
    /\ relOK = {}
    /\ held = {}
    /\ devN = 0
    /\ inQ = <<>>
    /\ doneQ = <<>>
    /\ streaming = FALSE
    /\ devSeq = 0
    /\ encRunning = FALSE
    /\ encPc = "none"
    /\ encFrame = NoFrame
    /\ encPath = "none"
    /\ relLog = <<>>
    /\ exPc = "set_cb"

\* the steps of initialize() that can fail, in order
InitFailures ==
    {"none", "open", "querycap", "nocapture", "nostreaming", "s_fmt",
     "fmt_mismatch", "s_parm", "reqbufs", "querybuf", "mmap", "qbuf"}

BeforeReqbufs ==
    {"querycap", "nocapture", "nostreaming", "s_fmt", "fmt_mismatch",
     "s_parm", "reqbufs"}

\* request_buffers' mapping loop stopped at buffer k by f, or completed
BuffersAfter(f, granted, k, noExport) ==
    [i \in 1..granted |->
        IF f \in {"querybuf", "mmap"} /\ i - 1 >= k
        THEN IF f = "mmap" /\ i - 1 = k
             THEN [start |-> "MAP_FAILED", dma_fd |-> 0]
             ELSE FreshBuffer
        ELSE MappedBuffer(noExport)]

\* the indices the enqueue loop of request_buffers has queued
QueuedAfterSkipsLast(f, granted, k) ==
    IF f \in {"querybuf", "mmap"} THEN <<>>
    ELSE [i \in 1..(IF f = "qbuf" THEN k ELSE granted - 1) |-> i - 1]

QueuedAfter(f, granted, k) ==
    IF f \in {"querybuf", "mmap"} THEN <<>>
    ELSE [i \in 1..(IF f = "qbuf" THEN k ELSE granted) |-> i - 1]

\* "if (req.count < 2)" of request_buffers
InsufficientBelowOne(granted) == granted < 1
Insufficient(granted) == granted < MinBuffers

\* initialize(): what it returns and what it leaves, when the device makes
\* step fail0 fail (at buffer k for the per-buffer steps), grants `granted`
\* buffers and does or does not export DMA-BUF handles. A device whose
\* buffers an earlier handle still owns refuses VIDIOC_REQBUFS.
InitResult(fail0, granted, k, noExport) ==
    LET f == IF fail0 \notin ({"open"} \cup BeforeReqbufs) /\ devN > 0
             THEN "reqbufs" ELSE fail0
        same == [ok |-> FALSE, fd |-> 3, buffers |-> buffers_,
                 devN |-> devN, inQ |-> inQ, doneQ |-> doneQ,
                 error |-> f, granted |-> -1]
    IN  IF f = "open" THEN [same EXCEPT !.fd = -1]
        ELSE IF f \in BeforeReqbufs THEN same
        ELSE IF Insufficient(granted)
        THEN [same EXCEPT !.devN = granted, !.inQ = <<>>, !.doneQ = <<>>,
                          !.error = "insufficient", !.granted = granted]
        ELSE [ok |-> f = "none", fd |-> 3,
              buffers |-> BuffersAfter(f, granted, k, noExport),
              devN |-> granted,
              inQ |-> QueuedAfter(f, granted, k),
              doneQ |-> <<>>,
              error |-> f, granted |-> granted]

IndexInRangeOffByOne(index) == ~(index < 0 \/ index > Len(buffers_))
\* the index check of return_buffer_to_queue
IndexInRange(index) == ~(index < 0 \/ index >= Len(buffers_))

\* return_buffer_to_queue(index): the call's record and the driver's queue
ReturnBufferToQueue(index) ==
    IF ~IndexInRange(index)
    THEN /\ call' = ApiCall("release", index, FALSE, FALSE)
         /\ UNCHANGED <<inQ, relOK>>
    ELSE IF QBufAccepted(index)
    THEN /\ call' = ApiCall("release", index, TRUE, TRUE)
         /\ inQ' = Append(inQ, index)
         /\ relOK' = relOK \cup {index}
    ELSE /\ call' = ApiCall("release", index, FALSE, TRUE)
         /\ UNCHANGED <<inQ, relOK>>

\* initialize()
Initialize ==
    /\ mainPc = "idle"
    /\ IF initialized_
       THEN /\ call' = ApiCall("initialize", -1, TRUE, FALSE)
            /\ UNCHANGED <<fd_, initialized_, buffers_, devN, inQ, doneQ>>
       ELSE \E f \in InitFailures, g \in 1..MaxGrant, noExport \in BOOLEAN :
            \E k \in 0..(g - 1) :
              LET r == InitResult(f, g, k, noExport)
              IN  /\ (f \notin {"querybuf", "mmap", "qbuf"} => k = 0)
                  /\ fd_' = r.fd
                  /\ initialized_' = r.ok
                  /\ buffers_' = r.buffers
                  /\ devN' = r.devN
                  /\ inQ' = r.inQ
                  /\ doneQ' = r.doneQ
                  /\ call' = [ApiCall("initialize", -1, r.ok, FALSE)
                                 EXCEPT !.error = r.error,
                                        !.granted = r.granted]
    /\ UNCHANGED <<running_, frame_callback_, capPc, capFrame, mainPc, relOK,
                   held, streaming, devSeq>>

\* set_frame_callback(), before the capture thread exists
SetFrameCallback ==
    /\ mainPc = "idle"
    /\ capPc = "none"
    /\ ~frame_callback_
    /\ frame_callback_' = TRUE
    /\ call' = ApiCall("set_frame_callback", -1, TRUE, FALSE)
    /\ UNCHANGED <<fd_, initialized_, running_, buffers_, capPc, capFrame,
                   mainPc, relOK, held, devvars>>

\* start() goes on to VIDIOC_STREAMON, the flag and the thread
StartGoesUninitialized(ok, running, streamonOk) == ~running /\ streamonOk
StartGoesAgain(ok, running, streamonOk) == ok /\ streamonOk
StartGoesUnstreamed(ok, running, streamonOk) == ok /\ ~running
StartGoes(ok, running, streamonOk) == ok /\ ~running /\ streamonOk

\* start(): initialize() first when that was not done, then, unless it is
\* running already, VIDIOC_STREAMON, the flag and the thread
Start ==
    /\ mainPc = "idle"
    /\ \E f \in InitFailures, g \in 1..MaxGrant, noExport \in BOOLEAN,
          streamonOk \in BOOLEAN :
       \E k \in 0..(g - 1) :
         LET r == IF initialized_
                  THEN [ok |-> TRUE, fd |-> fd_, buffers |-> buffers_,
                        devN |-> devN, inQ |-> inQ, doneQ |-> doneQ,
                        error |-> "none", granted |-> -1]
                  ELSE InitResult(f, g, k, noExport)
             go == StartGoes(r.ok, running_, streamonOk)
         IN  /\ (f \notin {"querybuf", "mmap", "qbuf"} => k = 0)
             /\ (initialized_ => (f = "none" /\ g = 1 /\ ~noExport))
             /\ ((~r.ok \/ running_) => streamonOk)
             /\ fd_' = r.fd
             /\ initialized_' = r.ok
             /\ buffers_' = r.buffers
             /\ devN' = r.devN
             /\ inQ' = r.inQ
             /\ doneQ' = r.doneQ
             /\ streaming' = (streaming \/ (r.ok /\ ~running_ /\ streamonOk))
             /\ running_' = (running_ \/ go)
             /\ capPc' = IF go THEN "loop" ELSE capPc
             /\ call' = [ApiCall("start", -1,
                                  r.ok /\ (running_ \/ streamonOk), FALSE)
                            EXCEPT !.error = IF r.ok /\ ~running_ /\ ~streamonOk
                                             THEN "streamon" ELSE r.error,
                                   !.granted = r.granted]
    /\ UNCHANGED <<frame_callback_, capFrame, mainPc, relOK, held, devSeq>>

\* stop(), up to the join
StopBegin ==
    /\ mainPc = "idle"
    /\ IF ~running_
       THEN /\ call' = ApiCall("stop", -1, TRUE, FALSE)
            /\ UNCHANGED <<running_, mainPc>>
       ELSE /\ running_' = FALSE
            /\ mainPc' = "join"
            /\ call' = NoApiCall
    /\ UNCHANGED <<fd_, initialized_, buffers_, frame_callback_, capPc,
                   capFrame, relOK, held, devvars>>

\* capture_thread_->join() returns: the thread has left capture_thread
JoinReturnsAtOnce == TRUE
JoinReturns == capPc = "exited"

\* stop(), from the join on: the thread is gone, VIDIOC_STREAMOFF takes every
\* buffer out of the driver's queues
StopJoin ==
    /\ mainPc = "join"
    /\ JoinReturns
    /\ capPc' = IF capPc = "exited" THEN "none" ELSE capPc
    /\ mainPc' = "idle"
    /\ streaming' = FALSE
    /\ inQ' = <<>>
    /\ doneQ' = <<>>
    /\ call' = ApiCall("stop", -1, TRUE, FALSE)
    /\ UNCHANGED <<fd_, initialized_, running_, buffers_, frame_callback_,
                   capFrame, relOK, held, devN, devSeq>>

\* ~CameraCapture, its stop(): as StopBegin, and on to the rest when the
\* camera was not running
DtorStop ==
    /\ mainPc = "idle"
    /\ running_' = FALSE
    /\ mainPc' = IF running_ THEN "dtor_join" ELSE "dtor_uninit"
    /\ call' = NoApiCall
    /\ UNCHANGED <<fd_, initialized_, buffers_, frame_callback_, capPc,
                   capFrame, relOK, held, devvars>>

\* ~CameraCapture, its stop() from the join on: as StopJoin
DtorJoin ==
    /\ mainPc = "dtor_join"
    /\ JoinReturns
    /\ capPc' = IF capPc = "exited" THEN "none" ELSE capPc
    /\ mainPc' = "dtor_uninit"
    /\ streaming' = FALSE
    /\ inQ' = <<>>
    /\ doneQ' = <<>>
    /\ call' = NoApiCall
    /\ UNCHANGED <<fd_, initialized_, running_, buffers_, frame_callback_,
                   capFrame, relOK, held, devN, devSeq>>

\* what uninit_device leaves of the pool: every region unmapped, every
\* exported handle closed, the vector cleared
UninitDevice(b) == <<>>

\* ~CameraCapture: "if (initialized_) uninit_device()"
DtorUninit ==
    /\ mainPc = "dtor_uninit"
    /\ buffers_' = IF initialized_ THEN UninitDevice(buffers_) ELSE buffers_
    /\ mainPc' = "dtor_close"
    /\ call' = NoApiCall
    /\ UNCHANGED <<fd_, initialized_, running_, frame_callback_, capPc,
                   capFrame, relOK, held, devvars>>

\* ~CameraCapture: "if (fd_ != -1) close(fd_)"; the driver frees the buffers
\* of a handle that is closed. What buffers_ keeps here stays mapped.
DtorClose ==
    /\ mainPc = "dtor_close"
    /\ fd_' = -1
    /\ IF fd_ # -1
       THEN /\ devN' = 0
            /\ inQ' = <<>>
            /\ doneQ' = <<>>
            /\ streaming' = FALSE
       ELSE UNCHANGED <<devN, inQ, doneQ, streaming>>
    /\ mainPc' = "destroyed"
    /\ call' = ApiCall("destroy", -1, TRUE, FALSE)
    /\ UNCHANGED <<initialized_, running_, buffers_, frame_callback_, capPc,
                   capFrame, relOK, held, devSeq>>

\* "while (running_)" of capture_thread
LoopGoesOnForEver(running) == TRUE
LoopGoesOn(running) == running

\* capture_thread: the test of running_
CapLoop ==
    /\ capPc = "loop"
    /\ capPc' = IF LoopGoesOn(running_) THEN "get" ELSE "exited"
    /\ call' = NoApiCall
    /\ UNCHANGED <<fd_, initialized_, running_, buffers_, frame_callback_,
                   capFrame, mainPc, relOK, held, devvars>>

\* get_frame: select and VIDIOC_DQBUF give a filled buffer ("frame"), or
\* select is interrupted (EINTR), fails otherwise, or times out with no
\* buffer ready, or VIDIOC_DQBUF finds no data (EAGAIN) or fails otherwise
GetFrameOutcomes ==
    {"frame", "eintr", "select_failed", "timeout", "eagain", "dqbuf_failed"}

\* capture_thread after get_frame returned false: it sleeps 5 ms and goes
\* back to the test of running_, whatever made get_frame fail
AfterGetFrameFailedExits(o) == "exited"
AfterGetFrameFailedSkipsTest(o) == "get"
AfterGetFrameFailed(o) == "loop"

CapGetFrame ==
    /\ capPc = "get"
    /\ \E o \in GetFrameOutcomes :
         /\ o = "frame" => doneQ # <<>>
         /\ o = "timeout" => doneQ = <<>>
         /\ IF o = "frame"
            THEN /\ Head(doneQ).buf_index < Len(buffers_)
                 /\ doneQ' = Tail(doneQ)
                 /\ capFrame' = Head(doneQ)
                 /\ relOK' = relOK \ {Head(doneQ).buf_index}
                 /\ capPc' = "deliver"
            ELSE /\ capPc' = AfterGetFrameFailed(o)
                 /\ UNCHANGED <<doneQ, capFrame, relOK>>
         /\ call' = [ApiCall("get_frame", -1, o = "frame", FALSE)
                        EXCEPT !.error = IF o = "frame" THEN "none" ELSE o]
    /\ UNCHANGED <<fd_, initialized_, running_, buffers_, frame_callback_,
                   mainPc, held, devN, inQ, streaming, devSeq>>

\* the device fills the oldest queued buffer
DeviceFill ==
    /\ streaming
    /\ inQ # <<>>
    /\ devSeq < MaxFrames
    /\ doneQ' = Append(doneQ, Item(devSeq, Head(inQ)))
    /\ inQ' = Tail(inQ)
    /\ devSeq' = devSeq + 1
    /\ call' = NoApiCall
    /\ UNCHANGED <<camrest, devN, streaming>>

\* capture_thread once the callback has returned: the driver's queue is as
\* it was, the release of the frame is left to whoever got it
CapAfterCallbackRequeues(q, f) == Append(q, f.buf_index)
CapAfterCallbackRequeuesFirst(q, f) == <<f.buf_index>> \o q
CapAfterCallback(q, f) == q

\* capture_thread hands the frame to the callback, if there is one; here the
\* callback keeps the frame for a consumer that releases it later
CapDeliverHold ==
    /\ capPc = "deliver"
    /\ held' = IF frame_callback_
               THEN held \cup {[frame |-> capFrame, released |-> FALSE]}
               ELSE held
    /\ inQ' = CapAfterCallback(inQ, capFrame)
    /\ capFrame' = NoFrame
    /\ capPc' = "loop"
    /\ call' = NoApiCall
    /\ UNCHANGED <<fd_, initialized_, running_, buffers_, frame_callback_,
                   mainPc, relOK, devN, doneQ, streaming, devSeq>>

\* a consumer invokes the return_buffer closure of a frame it holds; it can
\* do so once more on the copy it keeps
ClientRelease(h) ==
    /\ h \in held
    /\ mainPc # "destroyed"
    /\ ReturnBufferToQueue(h.frame.buf_index)
    /\ held' = IF h.released THEN held \ {h}
               ELSE (held \ {h}) \cup {[h EXCEPT !.released = TRUE]}
    /\ UNCHANGED <<fd_, initialized_, running_, buffers_, frame_callback_,
                   capPc, capFrame, mainPc, devN, doneQ, streaming, devSeq>>

\* indices that name no buffer: below the pool, the first one past it, 7
BadIndexes == {-1, Len(buffers_), 7}

\* return_buffer_to_queue with an index that names no buffer
BadRelease(idx) ==
    /\ idx < 0 \/ idx >= Len(buffers_)
    /\ mainPc # "destroyed"
    /\ ReturnBufferToQueue(idx)
    /\ UNCHANGED <<fd_, initialized_, running_, buffers_, frame_callback_,
                   capPc, capFrame, mainPc, held, devN, doneQ, streaming,
                   devSeq>>

\* ------------------------------------------- the camera and its client
\* A client calls the camera's interface in any order; its callback keeps
\* the frames and its consumers release them.
QUnused ==
    /\ queue_ = <<>>
    /\ terminated_ = FALSE
    /\ max_size_ = 0
    /\ th = [t \in Threads |-> IdleThread]
    /\ last = NoCall
    /\ pushedLog = <<>>
    /\ poppedLog = <<>>
    /\ nextItem = 0
    /\ termPc = "idle"
    /\ termReturned = FALSE

InitCam == CamIdle /\ QUnused

NextCam ==
    \/ Initialize /\ UNCHANGED <<qvars, encvars>>
    \/ SetFrameCallback /\ UNCHANGED <<qvars, encvars>>
    \/ Start /\ UNCHANGED <<qvars, encvars>>
    \/ StopBegin /\ UNCHANGED <<qvars, encvars>>
    \/ StopJoin /\ UNCHANGED <<qvars, encvars>>
    \/ CapLoop /\ UNCHANGED <<qvars, encvars>>
    \/ CapGetFrame /\ UNCHANGED <<qvars, encvars>>
    \/ CapDeliverHold /\ UNCHANGED <<qvars, encvars>>
    \/ DeviceFill /\ UNCHANGED <<qvars, encvars>>
    \/ \E h \in held : ClientRelease(h) /\ UNCHANGED <<qvars, encvars>>
    \/ \E idx \in BadIndexes : BadRelease(idx) /\ UNCHANGED <<qvars, encvars>>
    \/ DtorStop /\ UNCHANGED <<qvars, encvars>>
    \/ DtorJoin /\ UNCHANGED <<qvars, encvars>>
    \/ DtorUninit /\ UNCHANGED <<qvars, encvars>>
    \/ DtorClose /\ UNCHANGED <<qvars, encvars>>

SpecCam == InitCam /\ [][NextCam]_vars

\* get_frame returns a frame
CapGetFrameOk == CapGetFrame /\ capPc' = "deliver" /\ UNCHANGED <<qvars, encvars>>

\* the capture thread is scheduled, and select is not interrupted for ever
SpecCamFair ==
    /\ SpecCam
    /\ WF_vars(CapLoop /\ UNCHANGED <<qvars, encvars>>)
    /\ SF_vars(CapGetFrameOk)

\* --------------------------------------------------------- EncoderStreamer
\* the threads of one camera and its streamer on the streamer's input_queue_
CapT == 1
EncT == 2

\* the timeout of the consumer's pop
PopTimeoutMs == 50

\* push_frame, called by capture_thread as the registered callback: a copy of
\* the frame goes into input_queue_ (constructed without a capacity)
CapDeliverQueue ==
    /\ capPc = "deliver"
    /\ IF frame_callback_
       THEN QPush(CapT, -1, capFrame)
       ELSE UNCHANGED <<queue_, th, last, pushedLog, poppedLog, terminated_,
                        max_size_>>
    /\ inQ' = CapAfterCallback(inQ, capFrame)
    /\ capFrame' = NoFrame
    /\ capPc' = "loop"
    /\ call' = NoApiCall
    /\ UNCHANGED <<fd_, initialized_, running_, buffers_, frame_callback_,
                   mainPc, relOK, held, devN, doneQ, streaming, devSeq,
                   encvars, nextItem, termPc, termReturned>>

\* encoding_loop: the test of running_; the loop ends by flushing the encoder
EncLoop ==
    /\ encPc = "loop"
    /\ encPc' = IF encRunning THEN "pop" ELSE "exited"
    /\ UNCHANGED <<qvars, camvars, devvars, encRunning, encFrame, encPath,
                   relLog, exPc>>

\* where encoding_loop goes on once its pop has returned, or "wait"; the
\* iteration began with a default-constructed frame
AfterPop ==
    /\ encPc' = IF th'[EncT].st # "idle" THEN "wait"
                ELSE IF last'.ret = "true" THEN "process" ELSE "loop"
    /\ encFrame' = IF th'[EncT].st = "idle" /\ last'.ret = "true"
                   THEN last'.out ELSE NoFrame
    /\ encPath' = "none"
    /\ UNCHANGED <<camvars, devvars, encRunning, relLog, exPc, nextItem,
                   termPc, termReturned>>

\* encoding_loop: input_queue_.pop(frame, 50)
EncPop ==
    /\ encPc = "pop"
    /\ QPop(EncT, PopTimeoutMs, NoFrame)
    /\ AfterPop

\* the pop is woken by a push
EncResume ==
    /\ encPc = "wait"
    /\ QResume(EncT)
    /\ AfterPop

\* the pop's 50 ms elapse
EncTimeout ==
    /\ encPc = "wait"
    /\ QTimeout(EncT)
    /\ AfterPop

\* the ways through an iteration of encoding_loop that has a frame
EncPaths ==
    {"rgb_alloc_failed", "unsupported_mat", "no_sws_context",
     "sws_alloc_failed", "encode_failed", "encoded"}

\* the way a path leaves the iteration: each one invokes frame.return_buffer
PathReleasesOnlyEncoded(path) == path = "encoded"
PathReleases(path) == path \in EncPaths

\* encoding_loop: the allocation of rgb_frame_; its failure releases the
\* frame and continues
EncProcess ==
    /\ encPc = "process"
    /\ \E failed \in BOOLEAN :
         /\ encPath' = IF failed THEN "rgb_alloc_failed" ELSE encPath
         /\ encPc' = IF ~failed THEN "read"
                     ELSE IF PathReleases("rgb_alloc_failed") THEN "release"
                     ELSE "loop"
         /\ encFrame' = IF failed /\ ~PathReleases("rgb_alloc_failed")
                        THEN NoFrame ELSE encFrame
    /\ UNCHANGED <<qvars, camvars, devvars, encRunning, relLog, exPc>>

\* encoding_loop: sws_scale reads the frame's mapped data into rgb_frame_
EncRead ==
    /\ encPc = "read"
    /\ encPc' = "encode"
    /\ UNCHANGED <<qvars, camvars, devvars, encRunning, encFrame, encPath,
                   relLog, exPc>>

\* encoding_loop: processing, the second conversion and the encoding, which
\* work on rgb_frame_ and no longer on the frame's data
EncEncode ==
    /\ encPc = "encode"
    /\ \E path \in EncPaths \ {"rgb_alloc_failed"} :
         /\ encPath' = path
         /\ encPc' = IF PathReleases(path) THEN "release" ELSE "loop"
         /\ encFrame' = IF PathReleases(path) THEN encFrame ELSE NoFrame
    /\ UNCHANGED <<qvars, camvars, devvars, encRunning, relLog, exPc>>

\* where encoding_loop goes on after frame.return_buffer(): to the end of the
\* iteration, where the frame goes out of scope
AfterReleaseReads == "read"
AfterRelease == "loop"

\* encoding_loop: frame.return_buffer(), the closure get_frame bound
EncRelease ==
    /\ encPc = "release"
    /\ ReturnBufferToQueue(encFrame.buf_index)
    /\ relLog' = Append(relLog, encFrame)
    /\ encPc' = AfterRelease
    /\ encFrame' = IF AfterRelease = "loop" THEN NoFrame ELSE encFrame
    /\ UNCHANGED <<qvars, fd_, initialized_, running_, buffers_,
                   frame_callback_, capPc, capFrame, mainPc, held, devN,
                   doneQ, streaming, devSeq, encRunning, encPath, exPc>>

\* ------------------------------------------------------------ example.cpp
\* main() for one camera and its streamer
ExSetCallback ==
    /\ exPc = "set_cb"
    /\ SetFrameCallback
    /\ exPc' = "init"
    /\ UNCHANGED <<qvars, encRunning, encPc, encFrame, encPath, relLog>>

ExInitialize ==
    /\ exPc = "init"
    /\ Initialize
    /\ exPc' = IF call'.ret THEN "start" ELSE "stream_init"
    /\ UNCHANGED <<qvars, encRunning, encPc, encFrame, encPath, relLog>>

ExStart ==
    /\ exPc = "start"
    /\ Start
    /\ exPc' = "stream_init"
    /\ UNCHANGED <<qvars, encRunning, encPc, encFrame, encPath, relLog>>

\* stream.initialize(): main goes on whatever it returns
ExStreamInitialize ==
    /\ exPc = "stream_init"
    /\ exPc' = "stream_start"
    /\ call' = NoApiCall
    /\ UNCHANGED <<qvars, camrest, devvars, encRunning, encPc, encFrame, encPath,
                   relLog>>

\* stream.start()
ExStreamStart ==
    /\ exPc = "stream_start"
    /\ encRunning' = TRUE
    /\ encPc' = "loop"
    /\ exPc' = "run"
    /\ call' = NoApiCall
    /\ UNCHANGED <<qvars, camrest, devvars, encFrame, encPath, relLog>>

\* the signal handler clears the flag main's loop tests
ExSignal ==
    /\ exPc = "run"
    /\ exPc' = "cam_stop"
    /\ call' = NoApiCall
    /\ UNCHANGED <<qvars, camrest, devvars, encRunning, encPc, encFrame, encPath,
                   relLog>>

\* cam.stop()
ExCamStopBegin ==
    /\ exPc = "cam_stop"
    /\ StopBegin
    /\ exPc' = IF mainPc' = "join" THEN "cam_stop" ELSE "stream_stop"
    /\ UNCHANGED <<qvars, encRunning, encPc, encFrame, encPath, relLog>>

ExCamStopJoin ==
    /\ exPc = "cam_stop"
    /\ StopJoin
    /\ exPc' = "stream_stop"
    /\ UNCHANGED <<qvars, encRunning, encPc, encFrame, encPath, relLog>>

\* EncoderStreamer::stop(): the flag, then the join
ExStreamStopBegin ==
    /\ exPc = "stream_stop"
    /\ mainPc = "idle"
    /\ encRunning' = FALSE
    /\ mainPc' = IF encPc # "none" THEN "join_enc" ELSE "idle"
    /\ exPc' = IF encPc # "none" THEN "stream_stop" ELSE "exit"
    /\ call' = NoApiCall
    /\ UNCHANGED <<qvars, fd_, initialized_, running_, buffers_,
                   frame_callback_, capPc, capFrame, relOK, held, devvars,
                   encPc, encFrame, encPath, relLog>>

\* encoding_thread_.join() returns: the thread has left encoding_loop
EncJoinReturnsAtOnce == TRUE
EncJoinReturns == encPc = "exited"

ExStreamStopJoin ==
    /\ exPc = "stream_stop"
    /\ mainPc = "join_enc"
    /\ EncJoinReturns
    /\ encPc' = IF encPc = "exited" THEN "none" ELSE encPc
    /\ mainPc' = "idle"
    /\ exPc' = "exit"
    /\ call' = NoApiCall
    /\ UNCHANGED <<qvars, fd_, initialized_, running_, buffers_,
                   frame_callback_, capPc, capFrame, relOK, held, devvars,
                   encRunning, encFrame, encPath, relLog>>

\* main returns: ~EncoderStreamer first (its stop() finds nothing to join;
\* the queue is terminated and destroyed with what it holds)
ExExit ==
    /\ exPc = "exit"
    /\ terminated_' = TRUE
    /\ exPc' = "cam_dtor"
    /\ call' = NoApiCall
    /\ UNCHANGED <<queue_, max_size_, th, last, pushedLog, poppedLog,
                   nextItem, termPc, termReturned, camrest, devvars,
                   encRunning, encPc, encFrame, encPath, relLog>>

\* main returns: then ~CameraCapture
ExCamDtorStop ==
    /\ exPc = "cam_dtor"
    /\ DtorStop
    /\ UNCHANGED <<qvars, encvars>>

ExCamDtorUninit ==
    /\ exPc = "cam_dtor"
    /\ DtorUninit
    /\ UNCHANGED <<qvars, encvars>>

ExCamDtorClose ==
    /\ exPc = "cam_dtor"
    /\ DtorClose
    /\ exPc' = "done"
    /\ UNCHANGED <<qvars, encRunning, encPc, encFrame, encPath, relLog>>

Init == CamIdle /\ QUnused

Next ==
    \/ ExSetCallback
    \/ ExInitialize
    \/ ExStart
    \/ ExStreamInitialize
    \/ ExStreamStart
    \/ ExSignal
    \/ ExCamStopBegin
    \/ ExCamStopJoin
    \/ ExStreamStopBegin
    \/ ExStreamStopJoin
    \/ ExExit
    \/ ExCamDtorStop
    \/ ExCamDtorUninit
    \/ ExCamDtorClose
    \/ CapLoop /\ UNCHANGED <<qvars, encvars>>
    \/ CapGetFrame /\ UNCHANGED <<qvars, encvars>>
    \/ CapDeliverQueue
    \/ DeviceFill /\ UNCHANGED <<qvars, encvars>>
    \/ EncLoop
    \/ EncPop
    \/ EncResume
    \/ EncTimeout
    \/ EncProcess
    \/ EncRead
    \/ EncEncode
    \/ EncRelease

Spec == Init /\ [][Next]_vars

\* The capture thread runs: its test of running_ is reached, the select of
\* get_frame returns within its 2 s, the callback's push returns, and a join
\* returns once the thread has ended. Nothing is asked of the encoding
\* thread, which may stall or be gone.
SpecFair ==
    /\ Spec
    /\ WF_vars(CapLoop /\ UNCHANGED <<qvars, encvars>>)
    /\ WF_vars(CapGetFrame /\ UNCHANGED <<qvars, encvars>>)
    /\ WF_vars(CapDeliverQueue)
    /\ WF_vars(ExCamStopJoin)

\* ------------------------------------------------ the queue on its own
\* Any thread calls push (either overload) or pop with any timeout; one more
\* thread calls terminate().
InitQ ==
    /\ queue_ = <<>>
    /\ terminated_ = FALSE
    /\ max_size_ \in 0..MaxCap
    /\ th = [t \in Threads |-> IdleThread]
    /\ last = NoCall
    /\ pushedLog = <<>>
    /\ poppedLog = <<>>
    /\ nextItem = 0
    /\ termPc = "idle"
    /\ termReturned = FALSE
    /\ CamIdle

PushCopy(t) ==
    /\ nextItem < MaxPush
    /\ \E tmo \in TimeoutValues : QPush(t, tmo, Item(nextItem + 1, 0))
    /\ nextItem' = nextItem + 1
    /\ UNCHANGED <<termPc, termReturned, pipevars>>

PushMove(t) ==
    /\ nextItem < MaxPush
    /\ \E tmo \in TimeoutValues : QPush(t, tmo, Item(nextItem + 1, 0))
    /\ nextItem' = nextItem + 1
    /\ UNCHANGED <<termPc, termReturned, pipevars>>

Pop(t) ==
    /\ \E tmo \in TimeoutValues : QPop(t, tmo, StaleItem)
    /\ UNCHANGED <<nextItem, termPc, termReturned, pipevars>>

Resume(t) ==
    QResume(t) /\ UNCHANGED <<nextItem, termPc, termReturned, pipevars>>

Timeout(t) ==
    QTimeout(t) /\ UNCHANGED <<nextItem, termPc, termReturned, pipevars>>

Spurious(t) ==
    QSpurious(t) /\ UNCHANGED <<nextItem, termPc, termReturned, pipevars>>

TerminateSet ==
    QTerminateSet /\ UNCHANGED <<nextItem, termReturned, pipevars>>

TerminateNotFull ==
    QTerminateNotFull /\ UNCHANGED <<nextItem, termReturned, pipevars>>

TerminateNotEmpty ==
    /\ QTerminateNotEmpty
    /\ termReturned' = TRUE
    /\ UNCHANGED <<nextItem, pipevars>>

NextQ ==
    \/ \E t \in Threads : PushCopy(t)
    \/ \E t \in Threads : PushMove(t)
    \/ \E t \in Threads : Pop(t)
    \/ \E t \in Threads : Resume(t)
    \/ \E t \in Threads : Timeout(t)
    \/ \E t \in Threads : Spurious(t)
    \/ TerminateSet
    \/ TerminateNotFull
    \/ TerminateNotEmpty

SpecQ == InitQ /\ [][NextQ]_vars

\* Time passes and a woken thread gets the mutex: a timed wait does time out,
\* a notified waiter does run again, and a terminate() that began returns.
\* Spurious wake-ups are not something a waiter can count on.
SpecQFair ==
    /\ SpecQ
    /\ \A t \in Threads : WF_vars(Resume(t)) /\ WF_vars(Timeout(t))
    /\ WF_vars(TerminateNotFull)
    /\ WF_vars(TerminateNotEmpty)

\* ------------------------------------------------------------ the properties
AllIdle == \A t \in Threads : th[t].st = "idle"

\* C6: once terminate() has returned, every push (either overload, bounded or
\* unbounded queue, any timeout) returns false without waiting and without
\* adding an item: the queue never grows after termination.
C6_PushAfterTerminateFails ==
    /\ [](/\ \A t \in Threads : ~(th[t].op = "push" /\ th[t].afterTerm)
          /\ (last.op = "push" /\ last.afterTerm)
                => (last.ret = "false" /\ ~last.blocked))
    /\ [][termReturned => (Len(queue_') <= Len(queue_)
                           /\ pushedLog' = pushedLog)]_vars

\* a push with no timeout, begun after terminate() returned on a full bounded
\* queue, has returned false
C6_Witness ==
    /\ last.op = "push" /\ last.afterTerm /\ last.ret = "false"
    /\ last.timeout_ms = -1
    /\ max_size_ > 0 /\ Len(queue_) = max_size_

\* C7: after terminate(), pops return the items pushed before it, each once
\* and in push order, until the queue is empty; only then does pop return
\* false, and it never waits.
C7_DrainAfterTerminate ==
    /\ [](/\ pushedLog = poppedLog \o queue_
          /\ \A t \in Threads : ~(th[t].op = "pop" /\ th[t].afterTerm)
          /\ (last.op = "pop" /\ last.afterTerm)
                => (~last.blocked /\ (last.ret = "false" => queue_ = <<>>)))
    /\ [][(termReturned /\ last' # last /\ last'.op = "pop" /\ queue_ # <<>>)
            => (/\ last'.ret = "true"
                /\ last'.out = Head(queue_)
                /\ queue_' = Tail(queue_)
                /\ poppedLog' = Append(poppedLog, Head(queue_)))]_vars

\* a pop begun after terminate() returned has got its item while another item
\* is still queued
C7_Witness ==
    /\ termReturned
    /\ last.op = "pop" /\ last.afterTerm /\ last.ret = "true"
    /\ Len(queue_) >= 1

\* no pop has taken an item and no terminate() has begun
OnlyPushes == max_size_ > 0 /\ ~terminated_ /\ poppedLog = <<>>

\* C8: on a queue of capacity C > 0 that is not terminated and that nobody
\* pops from, the first C pushes succeed without waiting and a further push
\* with a finite timeout returns false through its timeout, leaving exactly
\* the first C items queued.
C8_CapacityTimeout ==
    OnlyPushes =>
        /\ queue_ = pushedLog
        /\ Len(queue_) <= max_size_
        /\ \A i \in 1..Len(queue_) : queue_[i].sequence = i
        /\ (last.op = "push" /\ last.ret = "true") => ~last.blocked
        /\ (last.op = "push" /\ last.ret = "false")
              => (/\ last.timedOut
                  /\ last.timeout_ms >= 0
                  /\ Len(queue_) = max_size_)
        /\ \A t \in Threads : th[t].op = "push" => Len(queue_) = max_size_

\* capacity 2, three pushes, the third with a 50 ms timeout: it has timed out
C8_Witness ==
    /\ OnlyPushes
    /\ max_size_ = 2 /\ nextItem = 3
    /\ last.op = "push" /\ last.ret = "false" /\ last.timedOut
    /\ last.timeout_ms = 50 /\ last.blocked
    /\ Len(queue_) = 2

\* C9: terminate() is idempotent, and it wakes every waiter: every thread
\* that was blocked in push or pop when terminate() ran returns, push with
\* false and pop with false when the queue is empty.
C9_TerminateWakesAll ==
    /\ [][(termReturned /\ termPc' # termPc)
            => UNCHANGED <<queue_, terminated_, max_size_, th, last>>]_vars
    /\ [][(terminated_ /\ last' # last /\ last'.op = "push")
            => last'.ret = "false"]_vars
    /\ [][(terminated_ /\ last' # last /\ last'.op = "pop" /\ queue_ = <<>>)
            => last'.ret = "false"]_vars
    /\ (termReturned ~> AllIdle)

\* terminate() has returned and has woken two waiters that had no timeout
C9_Witness ==
    /\ termReturned
    /\ \A t \in Threads : th[t].st = "notified" /\ th[t].timeout_ms = -1

\* C10: a queue of capacity C > 0 never holds more than C items; a producer
\* blocks only when it finds the queue full, and goes on only once there is
\* room, the queue is terminated or its timeout has elapsed.
C10_BoundedBackpressure ==
    /\ [](max_size_ > 0 => Len(queue_) <= max_size_)
    /\ [][\A t \in Threads :
            /\ (th[t].st = "idle" /\ th'[t].op = "push")
                  => (max_size_ > 0 /\ Len(queue_) >= max_size_
                      /\ ~terminated_)
            /\ (th[t].op = "push" /\ th'[t].st = "idle")
                  => (Len(queue_) < max_size_ \/ terminated_
                      \/ last'.timedOut)]_vars

\* a producer is blocked on a full queue of capacity 2
C10_Witness ==
    /\ max_size_ >= 2 /\ Len(queue_) = max_size_
    /\ \E t \in Threads : th[t].op = "push" /\ th[t].st = "wait"

\* the driver owns buffer i: it is queued for filling, or filled and waiting
DriverOwns(i) == DevState(i) \in {"queued", "done"}

\* the unreleased Frames that refer to buffer i: the capture thread's, those a
\* callback kept, those in the handoff queue and the consumer's
Holders(i) ==
    (IF capPc = "deliver" /\ capFrame.buf_index = i THEN 1 ELSE 0)
    + Cardinality({h \in held : ~h.released /\ h.frame.buf_index = i})
    + Cardinality({k \in 1..Len(queue_) : queue_[k].buf_index = i})
    + (IF encPc \in {"process", "read", "encode", "release"}
            /\ encFrame.buf_index = i
       THEN 1 ELSE 0)

\* C1: after allocation every buffer of the pool is owned by exactly one of
\* the driver (Free) and one consumer (InFlight): never both, never neither.
C1_ExactlyOneOwner ==
    initialized_ =>
        \A i \in 0..(Len(buffers_) - 1) :
            \/ DriverOwns(i) /\ Holders(i) = 0
            \/ ~DriverOwns(i) /\ Holders(i) = 1

\* C3: after release(i) has succeeded, a second release(i) made before
\* buffer i is dequeued again returns an error, does not re-enqueue the
\* buffer and leaves the pool as it is.
C3_SecondReleaseRejected ==
    [][(call'.op = "release" /\ call'.index \in relOK)
         => (/\ call'.ret = FALSE
             /\ inQ' = inQ
             /\ doneQ' = doneQ
             /\ devN' = devN
             /\ buffers_' = buffers_)]_vars

\* C4: release(index) with index < 0 or index >= pool size returns an error,
\* issues no enqueue to the device and changes nothing of the pool, in every
\* state of the pool, the empty one included.
C4_BadIndexRejected ==
    [][(call'.op = "release"
          /\ (call'.index < 0 \/ call'.index >= Len(buffers_)))
         => (/\ call'.ret = FALSE
             /\ call'.qbuf = FALSE
             /\ UNCHANGED <<buffers_, devN, inQ, doneQ, streaming, relOK>>)]_vars

\* release of the first index past an allocated, partly consumer-owned pool
\* has been refused
C4_Witness ==
    /\ initialized_ /\ Len(buffers_) >= 2
    /\ call.op = "release" /\ call.index = Len(buffers_) /\ ~call.ret
    /\ \E i \in 0..(Len(buffers_) - 1) : ~DriverOwns(i)

\* how often frame f had its release invoked by the consumer
ReleaseCount(f) == Cardinality({k \in 1..Len(relLog) : relLog[k] = f})

\* C2: every Frame the capture loop delivered to the sink is released exactly
\* once, never twice, whatever the interleaving of the capture thread, the
\* push, the consumer and the two stops, the frames that are in the handoff
\* queue when the consumer is stopped included: when main() has returned, no
\* delivered frame is left unreleased.
C2_DeliveredReleasedOnce ==
    /\ \A k \in 1..Len(pushedLog) : ReleaseCount(pushedLog[k]) <= 1
    /\ exPc = "done" => \A k \in 1..Len(pushedLog) :
                            ReleaseCount(pushedLog[k]) = 1

\* C5: the sequence numbers of the frames the consumer pops are strictly
\* increasing.
C5_PoppedInSequence ==
    \A i, j \in 1..Len(poppedLog) :
        i < j => poppedLog[i].sequence < poppedLog[j].sequence

\* the consumer has popped two frames and a third is waiting in the queue
C5_Witness ==
    /\ Len(poppedLog) >= 2
    /\ Len(queue_) >= 1

\* a pool with no mapped region and no open export handle
NothingMapped(b) ==
    \A i \in 1..Len(b) : b[i].start # "mapped" /\ b[i].dma_fd <= 0

\* the call made in this step was initialize(), alone or inside start()
Configured(c) == c.op \in {"initialize", "start"}

\* C11: if mapping fails for buffer k during pool allocation, the allocation
\* fails and every region mapped for buffers 0..k-1 is unmapped before the
\* failure is returned: a failed allocation leaves no mapped region and no
\* open export handle.
C11_MapFailureUnmapsAll ==
    [][(Configured(call') /\ call'.error = "mmap")
         => (~call'.ret /\ ~initialized_' /\ NothingMapped(buffers_'))]_vars

\* C12: when the device grants fewer than 2 buffers, allocation fails with
\* the insufficient-buffers error, the pool stays empty, no region is mapped
\* and no buffer is queued to the device.
C12_InsufficientBuffers ==
    [][(Configured(call') /\ call'.granted \in {0, 1})
         => (/\ ~call'.ret
             /\ call'.error = "insufficient"
             /\ ~initialized_'
             /\ buffers_' = <<>>
             /\ inQ' = <<>>)]_vars

\* initialize() has just failed on a grant of one buffer
C12_Witness ==
    /\ call.op = "initialize"
    /\ call.granted = 1
    /\ ~call.ret
    /\ devN = 1
    /\ buffers_ = <<>>

\* the setup steps whose failure is fatal to configure
SetupErrors ==
    {"open", "querycap", "nocapture", "nostreaming", "s_fmt", "fmt_mismatch",
     "reqbufs", "insufficient", "querybuf", "mmap", "qbuf"}

\* C13: when a setup step of configure fails, the session does not reach the
\* Configured state and is never put into Streaming: while it is not
\* configured, start() neither turns streaming on nor creates a capture
\* thread.
C13_FailedConfigureNeverStreams ==
    [][/\ (Configured(call') /\ call'.error \in SetupErrors)
            => (~call'.ret /\ ~initialized_')
       /\ ~initialized_' => (~streaming' /\ ~running_' /\ capPc' = "none")]_vars

\* start() on a camera whose configure fails at the mapping, VIDIOC_STREAMON
\* being ready to succeed
C13_Witness ==
    /\ call.op = "start"
    /\ call.error = "mmap"
    /\ ~initialized_
    /\ buffers_ # <<>>
    /\ capPc = "none"

\* C14: a failure of the frame-rate step does not fail configure: with every
\* other step succeeding, configure allocates the pool, queues all buffers
\* and ends Configured.
C14_FrameRateFailureNotFatal ==
    [][(call'.op = "initialize" /\ call'.error = "s_parm")
         => (/\ call'.ret
             /\ initialized_'
             /\ Len(buffers_') >= 2
             /\ Len(inQ') = Len(buffers_'))]_vars

\* C15: the capture thread is joined before streaming is turned off: in no
\* reachable state is streaming off, or the device closed, while the capture
\* thread is in get_frame.
C15_NoDequeueWhileStreamOff ==
    capPc = "get" => (streaming /\ fd_ # -1)

\* stop() waits in its join while the capture thread is in get_frame
C15_Witness ==
    /\ mainPc = "join"
    /\ ~running_
    /\ capPc = "get"
    /\ streaming

\* C16: teardown stops streaming, unmaps every buffer and closes every export
\* handle, then closes the device handle: the device handle is never closed
\* while streaming is on or a buffer is still mapped, in whatever lifecycle
\* state teardown starts.
C16_CloseAfterUnmap ==
    [][(mainPc = "dtor_close" /\ mainPc' = "destroyed")
         => (~streaming /\ NothingMapped(buffers_))]_vars

\* C18: the capture loop never releases a Frame itself: its step from the
\* callback back to the loop head enqueues nothing to the device.
C18_LoopNeverReleases ==
    [][(capPc = "deliver" /\ capPc' # "deliver")
         => (inQ' = inQ /\ call'.op # "release")]_vars

\* the callback returned, the loop is back at its head, and the frame's
\* buffer is still away from the driver
C18_Witness ==
    /\ capPc = "loop"
    /\ \E h \in held : ~h.released /\ ~DriverOwns(h.frame.buf_index)

\* the failures of get_frame that are timeouts or retryable
TransientErrors == {"timeout", "eintr", "eagain"}

\* the failures of get_frame that are neither
FatalErrors == {"select_failed", "dqbuf_failed"}

\* C19: while running_ is set, a timeout or retryable failure of get_frame
\* never ends the capture loop: the thread is back at the loop head, it leaves
\* the loop only when running_ is clear, and a completed buffer is delivered
\* in the end.
C19_TransientFailureRetries ==
    /\ [][/\ (call'.op = "get_frame" /\ call'.error \in TransientErrors)
               => capPc' = "loop"
          /\ (capPc = "loop" /\ capPc' = "exited") => ~running_]_vars
    /\ (running_ /\ capPc \in {"loop", "get"} /\ doneQ # <<>>)
           ~> (capPc = "deliver" \/ ~running_)

\* get_frame has just timed out, the camera runs on and a frame was delivered
\* before
C19_Witness ==
    /\ call.op = "get_frame"
    /\ call.error = "timeout"
    /\ running_
    /\ capPc = "loop"
    /\ held # {}

\* C20: the capture loop exits when get_frame reports a fatal error: the
\* thread stops iterating instead of retrying.
C20_FatalErrorExits ==
    [][(call'.op = "get_frame" /\ call'.error \in FatalErrors)
         => capPc' = "exited"]_vars

\* C21: a dequeue that times out with no frame ready returns the timeout
\* signal and leaves the pool unchanged: no buffer changes owner or state, no
\* Frame is constructed or delivered, and the loop goes to its next iteration.
C21_TimeoutLeavesPool ==
    [][(call'.op = "get_frame" /\ call'.error = "timeout")
         => (/\ ~call'.ret
             /\ UNCHANGED <<buffers_, devN, inQ, doneQ, relOK, held>>
             /\ capFrame' = NoFrame
             /\ capPc' = "loop")]_vars

\* get_frame has just timed out on a streaming device that holds every buffer
\* and has filled none
C21_Witness ==
    /\ call.op = "get_frame"
    /\ call.error = "timeout"
    /\ streaming
    /\ Len(inQ) = Len(buffers_)
    /\ Len(inQ) >= 2
    /\ held = {}

C25_AllQueuedAfterAllocation ==
    [][(~initialized_ /\ initialized_')
         => (/\ Configured(call')
             /\ Len(buffers_') = call'.granted
             /\ devN' = call'.granted
             /\ \A i \in 1..Len(buffers_') : buffers_'[i].start = "mapped"
             /\ inQ' = [i \in 1..Len(buffers_') |-> i - 1]
             /\ doneQ' = <<>>)]_vars

\* initialize() has just succeeded and streaming has not begun
C25_Witness ==
    /\ call.op = "initialize"
    /\ call.ret
    /\ call.granted >= 2
    /\ initialized_
    /\ ~streaming
    /\ Len(inQ) = call.granted

\* C23: when the consumer side shuts down, the handoff queue has been
\* terminated by the time the join of the consumer thread returns.
C23_TerminateBeforeJoin ==
    [][(mainPc = "join_enc" /\ mainPc' # "join_enc") => terminated_]_vars

\* the pool is mapped and the device open
PoolAlive ==
    /\ fd_ # -1
    /\ buffers_ # <<>>
    /\ \A i \in 1..Len(buffers_) : buffers_[i].start = "mapped"

\* C24: at no point of the pipeline, its shutdown included, is the consumer
\* about to read a frame whose buffer is unmapped or to invoke a release on a
\* camera whose pool is torn down, and the capture thread is never about to
\* dequeue from a closed device.
C24_NoUseAfterTeardown ==
    /\ encPc = "read"
          => (PoolAlive /\ IndexInRange(encFrame.buf_index))
    /\ encPc = "release" => (PoolAlive /\ mainPc # "destroyed")
    /\ capPc \in {"get", "deliver"} => (fd_ # -1 /\ PoolAlive)

\* main has run to its end, pool unmapped and device closed, after the
\* consumer had read and released a frame
C24_Witness ==
    /\ exPc = "done"
    /\ fd_ = -1
    /\ buffers_ = <<>>
    /\ Len(relLog) >= 1
    /\ encPc = "none"
    /\ capPc = "none"

EncHolds == encPc \in {"process", "read", "encode", "release"}

\* C27: in the consumer loop every popped frame has its release invoked
\* exactly once before the next pop, whichever way the iteration goes.
C27_ReleasedBeforeNextPop ==
    LET n == Len(poppedLog)
    IN  IF EncHolds
        THEN /\ n >= 1
             /\ encFrame = poppedLog[n]
             /\ relLog = SubSeq(poppedLog, 1, n - 1)
        ELSE relLog = poppedLog

\* the iteration left early, on an unsupported image type, and its frame was
\* released; an earlier iteration had gone through the encoder
C27_Witness ==
    /\ encPc = "loop"
    /\ encPath = "unsupported_mat"
    /\ call.op = "release"
    /\ Len(relLog) >= 2
    /\ relLog = poppedLog

\* C28: the consumer reads a frame's data only before it invokes the frame's
\* release, and a frame the capture thread still holds has not been released.
C28_NoReadAfterRelease ==
    /\ encPc = "read"
          => /\ encFrame # NoFrame
             /\ ReleaseCount(encFrame) = 0
             /\ ~DriverOwns(encFrame.buf_index)
    /\ capFrame # NoFrame => ReleaseCount(capFrame) = 0

\* the consumer has read a frame and released it after encoding it, while the
\* capture thread holds the next one
C28_Witness ==
    /\ encPath = "encoded"
    /\ call.op = "release"
    /\ call.ret
    /\ encPc = "loop"
    /\ capFrame # NoFrame

\* C29: a push or a pop that returns false leaves the queue's contents and
\* order as they were, and a pop that returns false leaves its caller's item
\* as it was.
C29_FailureLeavesQueue ==
    /\ [][last'.ret = "false"
            => UNCHANGED <<queue_, pushedLog, poppedLog>>]_vars
    /\ [](last.op = "pop" /\ last.ret = "false" => last.out = StaleItem)

\* a pop that had waited on a queue holding nothing timed out, after items
\* had gone through the queue
C29_Witness ==
    /\ last.op = "pop"
    /\ last.ret = "false"
    /\ last.blocked
    /\ last.timedOut
    /\ poppedLog # <<>>
    /\ ~terminated_

\* a waiter of t's kind has been notified and has not run yet
NotifiedFor(t) ==
    \E u \in Threads : th[u].st = "notified" /\ th[u].op = th[t].op

\* thread t waits with no timeout, on a queue that is not terminated, for a
\* predicate that holds
SitsOnTrue(t) ==
    /\ th[t].st = "wait"
    /\ th[t].timeout_ms < 0
    /\ ~terminated_
    /\ WaitPred(t)

C31_DequeuedIsDeliveredOrReturned ==
    [][(capPc = "deliver" /\ capPc' # "deliver")
         => \/ \E h \in held' : h.frame = capFrame /\ ~h.released
            \/ capFrame.buf_index \in {inQ'[k] : k \in 1..Len(inQ')}]_vars

\* the frames that are in the handoff queue or with the consumer
Unreleased ==
    {queue_[k] : k \in 1..Len(queue_)}
       \cup (IF EncHolds THEN {encFrame} ELSE {})

\* C32: as long as the consumer's queue exists, the frames in it and the one
\* the consumer holds are no more than the pool has buffers, no two of them
\* name the same buffer, and so the unbounded queue is no longer than the
\* pool.
C32_UnreleasedBoundedByPool ==
    exPc \notin {"cam_dtor", "done"}
       => /\ Len(queue_) + (IF EncHolds THEN 1 ELSE 0) <= Len(buffers_)
          /\ Cardinality(Unreleased)
                = Len(queue_) + (IF EncHolds THEN 1 ELSE 0)
          /\ \A f, g \in Unreleased : f.buf_index = g.buf_index => f = g
          /\ Len(queue_) <= Len(buffers_)

\* every buffer of the pool is in a frame that waits in the queue; the device
\* has none left while it streams
C32_Witness ==
    /\ Len(buffers_) >= 2
    /\ Len(queue_) = Len(buffers_)
    /\ streaming
    /\ inQ = <<>>
    /\ doneQ = <<>>
    /\ poppedLog # <<>>

\* C33: a capture thread is created only when none exists, and exists only
\* while the camera runs or is being joined; running_ is set only together
\* with a VIDIOC_STREAMON that succeeded, holds only while the device
\* streams, and is clear when streaming is turned off.
C33_OneThreadRunningImpliesStreaming ==
    /\ [](running_ => (streaming /\ capPc # "none"))
    /\ [](capPc # "none"
            => (running_ \/ mainPc \in {"join", "dtor_join"}))
    /\ [][(~running_ /\ running_')
            => (capPc = "none" /\ capPc' = "loop" /\ streaming')]_vars
    /\ [][(streaming /\ ~streaming') => (~running_ /\ ~running_')]_vars

\* a camera that ran and delivered, was stopped and is running again
C33_Witness ==
    /\ call.op = "start"
    /\ call.ret
    /\ running_
    /\ streaming
    /\ capPc = "loop"
    /\ inQ = <<>>
    /\ doneQ = <<>>
    /\ held # {}

C35_RestartQueuesPool ==
    [][(~running_ /\ running_')
         => Len(inQ') + Len(doneQ') = Len(buffers_')]_vars

====
